---------------------------- MODULE Spec2Model ----------------------------
(***************************************************************************)
(* vapush: the Vapush store (src/src/index.ts lines 34-162) and the HTTP   *)
(* server createServer builds around it (lines 190-374).                   *)
(*                                                                         *)
(* One Node.js process runs at a time on one data directory.  The process  *)
(* is single-threaded: code between two awaits runs as one step, so every  *)
(* action below is the code from a call (or the completion of an awaited   *)
(* promise) up to the next await.  The data directory outlives the         *)
(* process; Restart ends the process and constructs a new one.             *)
(***************************************************************************)
EXTENDS Integers, FiniteSets, Sequences, TLC

(***************************************************************************)
(* Bounds of the model.                                                    *)
(***************************************************************************)
MaxInFlight == 2     \* calls / requests that may overlap
MaxClock == 1        \* the clock reads 0..MaxClock
MaxKeyGen == 2       \* key pairs generateVAPIDKeys can hand out

(***************************************************************************)
(* Values.                                                                 *)
(***************************************************************************)
Undefined == "undefined"

\* Subscriber identifiers callers supply.  "constructor" is a property every
\* plain object inherits from Object.prototype; "__proto__" is the accessor
\* of Object.prototype that reads and replaces an object's prototype.
Ids == {"a", "constructor", "__proto__"}
Descriptors == {"d1", "d2"}        \* endpoint descriptors (Subscription)
Names == {Undefined, "n"}          \* the optional display name
Subjects == {"mailto:x", "mailto:y"}
Secrets == {"k1", "k2"}

\* How a sendNotification settles: it resolves, or it rejects with an error
\* whose statusCode is that of the push service's answer, or undefined (a
\* network error, or an argument the library refuses).
Resolved == "resolved"
Outcomes == {Resolved, "404", "410", "500", Undefined}

\* new Date().toISOString() when the clock reads n.
ToISOString(n) == <<"T0", "T1", "T2", "T3">>[n + 1]

EmptyMap == [i \in {} |-> Undefined]
Restrict(f, S) == [i \in S |-> f[i]]

\* Content of a file of the data directory.
Missing == [kind |-> "missing"]
Corrupt == [kind |-> "corrupt"]
Json(v) == [kind |-> "json", value |-> v]
Text(s) == [kind |-> "text", value |-> s]

(***************************************************************************)
(* JavaScript objects.  this.subscriptions is a plain object ({} at line   *)
(* 38, JSON.parse's result at line 152): own holds its own enumerable      *)
(* properties, proto its prototype.                                        *)
(***************************************************************************)
ObjectPrototype == [builtin |-> "Object.prototype"]
InheritedNames == {"constructor"}
EmptyObject == [own |-> EmptyMap, proto |-> ObjectPrototype]

\* r.f: a property that is absent reads as undefined.
Get(r, f) == IF f \in DOMAIN r THEN r[f] ELSE Undefined

\* Whether o[id] is truthy: an own record, else what the prototype chain
\* gives (the prototype itself for "__proto__", a builtin function for a
\* name Object.prototype defines), else undefined.
Truthy(o, id) ==
    \/ id \in DOMAIN o.own
    \/ id = "__proto__"
    \/ id \in InheritedNames

\* o[id].subscription, for a truthy o[id].
SubscriptionOf(o, id) ==
    IF id \in DOMAIN o.own THEN Get(o.own[id], "subscription")
    ELSE IF id = "__proto__" /\ o.proto # ObjectPrototype
         THEN Get(o.proto, "subscription")
    ELSE Undefined

\* o[id] = rec: assigning "__proto__" runs the setter of Object.prototype,
\* which replaces the prototype and creates no own property.
SetProp(o, id, rec) ==
    IF id = "__proto__" THEN [o EXCEPT !.proto = rec]
    ELSE [o EXCEPT !.own = [i \in DOMAIN o.own \cup {id} |->
                               IF i = id THEN rec ELSE o.own[i]]]

\* delete o[id]: removes an own property, and is a no-op otherwise.
DeleteProp(o, id) == [o EXCEPT !.own = Restrict(o.own, DOMAIN o.own \ {id})]

\* Object.keys(o): the own enumerable property names.
ObjectKeys(o) == DOMAIN o.own

\* A serialiser that loses the name.
StringifyRecord_noName(r) == Restrict(r, DOMAIN r \ {"name"})

\* JSON.stringify of a record drops the properties whose value is undefined.
StringifyRecord(r) == Restrict(r, {f \in DOMAIN r : r[f] # Undefined})

\* JSON.stringify(this.subscriptions): the own enumerable properties.
Stringify(o) == Json([id \in DOMAIN o.own |-> StringifyRecord(o.own[id])])

\* JSON.parse of a file's content builds a fresh plain object.
Parse(content) == [own |-> content.value, proto |-> ObjectPrototype]

(***************************************************************************)
(* State.                                                                  *)
(***************************************************************************)
VARIABLES
    keyFile,        \* dataDir/vapid.json
    subFile,        \* dataDir/subscriptions.json
    secretFile,     \* dataDir/secret
    mode,           \* "lib": a program using the Vapush class; "server": createServer
    phase,          \* how far construction, init and createServer have come
    keys,           \* Vapush.keys
    subscriptions,  \* Vapush.subscriptions
    secret,         \* createServer's secret
    calls,          \* the method calls / HTTP requests in progress
    now,            \* the clock new Date() reads
    keyGen          \* key pairs generated so far

vars == <<keyFile, subFile, secretFile, mode, phase, keys, subscriptions,
          secret, calls, now, keyGen>>

disk == <<keyFile, subFile, secretFile>>

Null == [kind |-> "null"]
NoWrite == [kind |-> "none"]
Slots == 1..MaxInFlight

\* A slot no call occupies.
IdleCall ==
    [kind |-> "idle", pc |-> "idle", id |-> Undefined, d |-> Undefined,
     name |-> Undefined, sent |-> EmptyMap, pending |-> {},
     outcome |-> EmptyMap, success |-> 0, failed |-> 0, toRemove |-> {},
     write |-> NoWrite, ret |-> "none", listed |-> EmptyMap, pub |-> 0,
     route |-> "none", provided |-> Undefined, body |-> "none", status |-> 0,
     shared |-> {}]

\* listed is the value a getSubscriptions call returned, as its caller holds
\* it: a new object whose properties are the very record objects of the
\* store.  shared is the set of identifiers under which the store still
\* holds the same record object; the store lets go of a record when it
\* assigns a new one to the identifier (line 61) or deletes it (lines 72,
\* 107, 128).
Unshare(cs, ids) == [b \in DOMAIN cs |-> [cs[b] EXCEPT !.shared = @ \ ids]]

AllIdle == \A c \in Slots : calls[c].pc = "idle"
\* No call is between its start and its return.
Quiescent == \A c \in Slots : calls[c].pc \in {"idle", "done"}
\* Slots are taken lowest first.
Free(c) == /\ calls[c].pc = "idle"
           /\ \A b \in Slots : b < c => calls[b].pc # "idle"

Init ==
    /\ keyFile \in {Missing, Corrupt}
    /\ subFile \in {Missing, Corrupt}
    /\ mode \in {"lib", "server"}
    /\ secretFile \in (IF mode = "server" THEN {Missing, Text("k1\n")} ELSE {Missing})
    /\ phase = "constructed"
    /\ keys = Null
    /\ subscriptions = EmptyObject
    /\ secret = Undefined
    /\ calls = [c \in Slots |-> IdleCall]
    /\ now = 0
    /\ keyGen = 0

(***************************************************************************)
(* Vapush: init (lines 46-51) and its private loaders (lines 135-161).     *)
(***************************************************************************)

\* A loader that generates and writes a pair on every init.
loadOrCreateKeys_alwaysCreate(subject) ==
    /\ keyGen < MaxKeyGen
    /\ keyGen' = keyGen + 1
    /\ keys' = [publicKey |-> keyGen + 1, privateKey |-> keyGen + 1,
                subject |-> subject]
    /\ keyFile' = Json(keys')

\* loadOrCreateKeys: the key record when vapid.json reads and parses; on
\* any failure of the read or the parse, a freshly generated pair with the
\* configured subject, written to vapid.json.
loadOrCreateKeys(subject) ==
    IF keyFile.kind = "json"
    THEN /\ keys' = keyFile.value
         /\ UNCHANGED <<keyFile, keyGen>>
    ELSE /\ keyGen < MaxKeyGen
         /\ keyGen' = keyGen + 1
         /\ keys' = [publicKey |-> keyGen + 1, privateKey |-> keyGen + 1,
                     subject |-> subject]
         /\ keyFile' = Json(keys')

\* What loadSubscriptions (lines 148-156) makes of the file: its parsed
\* content, or {} when the read or the parse fails.
Loaded(file) == IF file.kind = "json" THEN Parse(file) ELSE EmptyObject

loadSubscriptions == subscriptions' = Loaded(subFile)

\* saveSubscriptions: the content handed to fs.writeFile, serialised when
\* the call is made; the write itself completes later (WriteComplete).
saveSubscriptions(o) == Stringify(o)

\* init, first half: mkdir, this.keys = await loadOrCreateKeys(),
\* setVapidDetails.  The subject is the constructor's option.
InitLoadKeys(subject) ==
    /\ phase = "constructed"
    /\ loadOrCreateKeys(subject)
    /\ phase' = "keysLoaded"
    /\ UNCHANGED <<subFile, secretFile, mode, subscriptions, secret, calls, now>>

\* An init that creates the subscription file when it finds none it can use.
InitLoadSubscriptions_createsFile ==
    /\ phase = "keysLoaded"
    /\ loadSubscriptions
    /\ subFile' = IF subFile.kind = "json" THEN subFile ELSE Stringify(EmptyObject)
    /\ phase' = "ready"
    /\ UNCHANGED <<keyFile, secretFile, mode, keys, secret, calls, now, keyGen>>

\* init, second half: await loadSubscriptions().
InitLoadSubscriptions ==
    /\ phase = "keysLoaded"
    /\ loadSubscriptions
    /\ phase' = "ready"
    /\ UNCHANGED <<disk, mode, keys, secret, calls, now, keyGen>>

\* The process ends (nothing is in progress) and a new one is constructed
\* on the same data directory: fields as declared at lines 37-38.
Restart ==
    /\ phase \in {"ready", "listening"}
    /\ AllIdle
    /\ phase' = "constructed"
    /\ keys' = Null
    /\ subscriptions' = EmptyObject
    /\ secret' = Undefined
    /\ UNCHANGED <<disk, mode, calls, now, keyGen>>

\* Time passes.
Tick ==
    /\ now < MaxClock
    /\ now' = now + 1
    /\ UNCHANGED <<disk, mode, phase, keys, subscriptions, secret, calls, keyGen>>

(***************************************************************************)
(* Vapush methods.  r is the record of the call (of the HTTP request that  *)
(* makes it); each operator is the method from its call to its first       *)
(* await or its return.                                                    *)
(***************************************************************************)

\* The method returned; the handler of an HTTP request answers 200.
Finish(r, ret) ==
    [r EXCEPT !.pc = "done", !.ret = ret, !.write = NoWrite,
              !.status = IF r.route = "none" THEN 0 ELSE 200]

\* The method threw; the catch of the request handler (lines 342-348)
\* answers an HTTP request 500.
Throw(r, err) ==
    [r EXCEPT !.pc = "done", !.ret = err,
              !.status = IF r.route = "none" THEN 0 ELSE 500]

\* getPublicKey (lines 54-57).
getPublicKey(c, r) ==
    /\ calls' = [calls EXCEPT ![c] =
          IF keys = Null
          THEN [Throw(r, "Not initialized") EXCEPT !.kind = "getPublicKey"]
          ELSE [Finish(r, "value") EXCEPT !.kind = "getPublicKey",
                                          !.pub = keys.publicKey]]
    /\ UNCHANGED <<subscriptions, subFile>>

\* subscribe (lines 60-67).
subscribe(c, r, id, d, name) ==
    LET o == SetProp(subscriptions, id,
                     [subscription |-> d, createdAt |-> ToISOString(now), name |-> name])
    IN  /\ subscriptions' = o
        /\ calls' = Unshare([calls EXCEPT ![c] =
              [r EXCEPT !.kind = "subscribe", !.id = id, !.d = d,
                        !.name = name, !.pc = "saving",
                        !.write = saveSubscriptions(o)]], {id})
        /\ UNCHANGED subFile

\* unsubscribe (lines 70-75).
unsubscribe(c, r, id) ==
    IF ~Truthy(subscriptions, id)
    THEN /\ calls' = [calls EXCEPT ![c] =
               [Finish(r, "false") EXCEPT !.kind = "unsubscribe", !.id = id]]
         /\ UNCHANGED <<subscriptions, subFile>>
    ELSE LET o == DeleteProp(subscriptions, id)
         IN  /\ subscriptions' = o
             /\ calls' = Unshare([calls EXCEPT ![c] =
                   [r EXCEPT !.kind = "unsubscribe", !.id = id,
                             !.pc = "saving", !.write = saveSubscriptions(o)]], {id})
             /\ UNCHANGED subFile

\* getSubscriptions (lines 78-80): { ...this.subscriptions } copies the own
\* enumerable properties into a new object; the values copied are references
\* to the record objects, which are not copied.
getSubscriptions(o) == o.own

list(c, r) ==
    /\ calls' = [calls EXCEPT ![c] =
          [Finish(r, "value") EXCEPT !.kind = "list",
                                     !.listed = getSubscriptions(subscriptions),
                                     !.shared = DOMAIN getSubscriptions(subscriptions)]]
    /\ UNCHANGED <<subscriptions, subFile>>

\* A test that forgets 404.
IsGone_only410(statusCode) == statusCode = "410"

\* The statusCode test of lines 97 and 127: the endpoint is permanently gone.
IsGone(statusCode) == statusCode = "404" \/ statusCode = "410"

\* Lines 106-108: delete this.subscriptions[id] for every id of toRemove.
RECURSIVE removeAll(_, _)
removeAll(o, toRemove) ==
    IF toRemove = {} THEN o
    ELSE LET id == CHOOSE i \in toRemove : TRUE
         IN  removeAll(DeleteProp(o, id), toRemove \ {id})

\* A push that awaits each sendNotification before it calls the next: only
\* the first one is issued by the call.
push_oneAtATime(c, r) ==
    LET ids == ObjectKeys(subscriptions)
        first == IF ids = {} THEN {} ELSE {CHOOSE id \in ids : TRUE}
    IN  /\ calls' = [calls EXCEPT ![c] =
              IF ids = {}
              THEN [Finish(r, "counts") EXCEPT !.kind = "push"]
              ELSE [r EXCEPT !.kind = "push", !.pc = "sending",
                             !.sent = [id \in first |-> SubscriptionOf(subscriptions, id)],
                             !.pending = first]]
        /\ UNCHANGED <<subscriptions, subFile>>

\* push (lines 83-103): ids.map runs every callback up to its await, so
\* sendNotification is called for every own key before anything is awaited.
push(c, r) ==
    LET ids == ObjectKeys(subscriptions)
    IN  /\ calls' = [calls EXCEPT ![c] =
              IF ids = {}
              THEN [Finish(r, "counts") EXCEPT !.kind = "push"]
              ELSE [r EXCEPT !.kind = "push", !.pc = "sending",
                             !.sent = [id \in ids |-> SubscriptionOf(subscriptions, id)],
                             !.pending = ids]]
        /\ UNCHANGED <<subscriptions, subFile>>

\* pushTo (lines 117-123).
pushTo(c, r, id) ==
    /\ calls' = [calls EXCEPT ![c] =
          IF ~Truthy(subscriptions, id)
          THEN [Finish(r, "false") EXCEPT !.kind = "pushTo", !.id = id]
          ELSE [r EXCEPT !.kind = "pushTo", !.id = id, !.pc = "sending",
                         !.sent = [i \in {id} |-> SubscriptionOf(subscriptions, id)],
                         !.pending = {id}]]
    /\ UNCHANGED <<subscriptions, subFile>>

\* What sendNotification can answer for a descriptor: it rejects a missing
\* subscription itself, without a statusCode.
Answers(d) == IF d = Undefined THEN {Undefined} ELSE Outcomes

\* A push that deletes an identifier as soon as its attempt is answered 404
\* or 410, while other attempts are still pending.
PushDelivery_pruneAtOnce(c, id, statusCode) ==
    LET r  == calls[c]
        r1 == [r EXCEPT !.pending = r.pending \ {id},
                        !.outcome = [i \in DOMAIN r.outcome \cup {id} |->
                                        IF i = id THEN statusCode ELSE r.outcome[i]],
                        !.success = IF statusCode = Resolved THEN r.success + 1
                                    ELSE r.success,
                        !.failed = IF statusCode = Resolved THEN r.failed
                                   ELSE r.failed + 1,
                        !.toRemove = IF statusCode # Resolved /\ IsGone(statusCode)
                                     THEN r.toRemove \cup {id} ELSE r.toRemove]
        o  == removeAll(subscriptions, r1.toRemove)
    IN  /\ r.kind = "push" /\ r.pc = "sending"
        /\ id \in r.pending
        /\ statusCode \in Answers(r.sent[id])
        /\ subscriptions' = o
        /\ calls' = Unshare([calls EXCEPT ![c] =
              IF r1.pending # {} THEN r1
              ELSE IF r1.toRemove # {}
              THEN [r1 EXCEPT !.pc = "saving", !.write = saveSubscriptions(o)]
              ELSE Finish(r1, "counts")], r1.toRemove)
        /\ UNCHANGED <<disk, mode, phase, keys, secret, now, keyGen>>

\* One sendNotification of a push settles (lines 93-101); when it is the last
\* one, Promise.all resolves and the cleanup of lines 105-113 runs.
PushDelivery(c, id, statusCode) ==
    LET r  == calls[c]
        r1 == [r EXCEPT !.pending = r.pending \ {id},
                        !.outcome = [i \in DOMAIN r.outcome \cup {id} |->
                                        IF i = id THEN statusCode ELSE r.outcome[i]],
                        !.success = IF statusCode = Resolved THEN r.success + 1
                                    ELSE r.success,
                        !.failed = IF statusCode = Resolved THEN r.failed
                                   ELSE r.failed + 1,
                        !.toRemove = IF statusCode # Resolved /\ IsGone(statusCode)
                                     THEN r.toRemove \cup {id} ELSE r.toRemove]
        o  == removeAll(subscriptions, r1.toRemove)
    IN  /\ r.kind = "push" /\ r.pc = "sending"
        /\ id \in r.pending
        /\ statusCode \in Answers(r.sent[id])
        /\ IF r1.pending # {}
           THEN /\ calls' = [calls EXCEPT ![c] = r1]
                /\ UNCHANGED subscriptions
           ELSE /\ subscriptions' = o
                /\ calls' = Unshare([calls EXCEPT ![c] =
                      IF r1.toRemove # {}
                      THEN [r1 EXCEPT !.pc = "saving", !.write = saveSubscriptions(o)]
                      ELSE Finish(r1, "counts")], r1.toRemove)
        /\ UNCHANGED <<disk, mode, phase, keys, secret, now, keyGen>>

\* A pushTo that lets the error of a failed delivery reach its caller.
PushToDelivery_rethrow(c, statusCode) ==
    LET r == calls[c]
        r1 == [r EXCEPT !.pending = {},
                        !.outcome = [i \in {r.id} |-> statusCode]]
        o == DeleteProp(subscriptions, r.id)
    IN  /\ r.kind = "pushTo" /\ r.pc = "sending"
        /\ statusCode \in Answers(r.sent[r.id])
        /\ IF statusCode = Resolved
           THEN /\ calls' = [calls EXCEPT ![c] = Finish(r1, "true")]
                /\ UNCHANGED subscriptions
           ELSE IF IsGone(statusCode)
           THEN /\ subscriptions' = o
                /\ calls' = Unshare([calls EXCEPT ![c] =
                      [r1 EXCEPT !.pc = "saving", !.write = saveSubscriptions(o)]], {r.id})
           ELSE /\ calls' = [calls EXCEPT ![c] = Throw(r1, "error")]
                /\ UNCHANGED subscriptions
        /\ UNCHANGED <<disk, mode, phase, keys, secret, now, keyGen>>

\* The sendNotification of a pushTo settles (lines 123-132).
PushToDelivery(c, statusCode) ==
    LET r == calls[c]
        r1 == [r EXCEPT !.pending = {},
                        !.outcome = [i \in {r.id} |-> statusCode]]
        o == DeleteProp(subscriptions, r.id)
    IN  /\ r.kind = "pushTo" /\ r.pc = "sending"
        /\ statusCode \in Answers(r.sent[r.id])
        /\ IF statusCode = Resolved
           THEN /\ calls' = [calls EXCEPT ![c] = Finish(r1, "true")]
                /\ UNCHANGED subscriptions
           ELSE IF IsGone(statusCode)
           THEN /\ subscriptions' = o
                /\ calls' = Unshare([calls EXCEPT ![c] =
                      [r1 EXCEPT !.pc = "saving", !.write = saveSubscriptions(o)]], {r.id})
           ELSE /\ calls' = [calls EXCEPT ![c] = Finish(r1, "false")]
                /\ UNCHANGED subscriptions
        /\ UNCHANGED <<disk, mode, phase, keys, secret, now, keyGen>>

\* What each method returns once its saveSubscriptions has resolved.
ReturnAfterSave(kind) ==
    CASE kind = "subscribe" -> "void"
      [] kind = "unsubscribe" -> "true"
      [] kind = "push" -> "counts"
      [] kind = "pushTo" -> "false"

\* A disk whose write waits for every delivery attempt in flight.
WriteComplete_afterDeliveries(c) ==
    /\ calls[c].pc = "saving"
    /\ \A b \in Slots : calls[b].pending = {}
    /\ subFile' = calls[c].write
    /\ calls' = [calls EXCEPT ![c] = Finish(calls[c], ReturnAfterSave(calls[c].kind))]
    /\ UNCHANGED <<keyFile, secretFile, mode, phase, keys, subscriptions,
                    secret, now, keyGen>>

\* The fs.writeFile of a saveSubscriptions completes: the file holds what
\* that call serialised, and the awaiting method returns.  Writes that are
\* pending together complete in any order.
WriteComplete(c) ==
    /\ calls[c].pc = "saving"
    /\ subFile' = calls[c].write
    /\ calls' = [calls EXCEPT ![c] = Finish(calls[c], ReturnAfterSave(calls[c].kind))]
    /\ UNCHANGED <<keyFile, secretFile, mode, phase, keys, subscriptions,
                    secret, now, keyGen>>

\* A write that fails without the handler answering the request.
WriteFail_unanswered(c) ==
    /\ calls[c].pc = "saving"
    /\ subFile' \in {subFile, Corrupt}
    /\ calls' = [calls EXCEPT ![c] =
          [@ EXCEPT !.pc = "done", !.ret = "EIO", !.write = NoWrite]]
    /\ UNCHANGED <<keyFile, secretFile, mode, phase, keys, subscriptions,
                    secret, now, keyGen>>

\* The fs.writeFile of a saveSubscriptions fails (disk full, permissions):
\* the file is as it was or left truncated, the awaiting method rejects
\* with the error, and the catch of the request handler answers 500.  The
\* in-memory map keeps the change.
WriteFail(c) ==
    /\ calls[c].pc = "saving"
    /\ subFile' \in {subFile, Corrupt}
    /\ calls' = [calls EXCEPT ![c] = [Throw(calls[c], "EIO") EXCEPT !.write = NoWrite]]
    /\ UNCHANGED <<keyFile, secretFile, mode, phase, keys, subscriptions,
                    secret, now, keyGen>>

\* The caller has taken the result (the response has been sent).
Reap(c) ==
    /\ calls[c].pc = "done"
    /\ calls' = [calls EXCEPT ![c] = IdleCall]
    /\ UNCHANGED <<disk, mode, phase, keys, subscriptions, secret, now, keyGen>>

(***************************************************************************)
(* A program using the class: it calls the store's methods once init has   *)
(* completed, and may call getPublicKey at any time.  Calls may overlap:   *)
(* every method but getPublicKey and getSubscriptions is async.            *)
(***************************************************************************)
rest == <<keyFile, secretFile, mode, phase, keys, secret, now, keyGen>>

CallGetPublicKey(c) ==
    /\ mode = "lib" /\ Free(c)
    /\ getPublicKey(c, IdleCall)
    /\ UNCHANGED rest

CallSubscribe(c, id, d, name) ==
    /\ mode = "lib" /\ phase = "ready" /\ Free(c)
    /\ subscribe(c, IdleCall, id, d, name)
    /\ UNCHANGED rest

CallUnsubscribe(c, id) ==
    /\ mode = "lib" /\ phase = "ready" /\ Free(c)
    /\ unsubscribe(c, IdleCall, id)
    /\ UNCHANGED rest

CallGetSubscriptions(c) ==
    /\ mode = "lib" /\ phase = "ready" /\ Free(c)
    /\ list(c, IdleCall)
    /\ UNCHANGED rest

CallPush(c) ==
    /\ mode = "lib" /\ phase = "ready" /\ Free(c)
    /\ push(c, IdleCall)
    /\ UNCHANGED rest

CallPushTo(c, id) ==
    /\ mode = "lib" /\ phase = "ready" /\ Free(c)
    /\ pushTo(c, IdleCall, id)
    /\ UNCHANGED rest

(***************************************************************************)
(* What a program does with a value getSubscriptions returned to it.  The  *)
(* value is the program's own object, but each record in it is the object  *)
(* the store holds for as long as the identifier is in shared: a field     *)
(* assigned through the returned value is assigned in the store's record,  *)
(* and in every other returned value that holds the same record.           *)
(***************************************************************************)

\* rec.f = v
SetField(rec, f, v) == [g \in DOMAIN rec \cup {f} |-> IF g = f THEN v ELSE rec[g]]

\* The call in slot c is a getSubscriptions whose result the program holds.
Holds(c) == mode = "lib" /\ calls[c].kind = "list" /\ calls[c].pc = "done"

\* subs[id].name = name, on the value subs held from call c.
CallerSetsName(c, id, name) ==
    LET r == calls[c]
        rec == SetField(r.listed[id], "name", name)
        sameObject(b) == id \in r.shared /\ id \in calls[b].shared
    IN  /\ Holds(c)
        /\ id \in DOMAIN r.listed
        /\ Get(r.listed[id], "name") # name
        /\ calls' = [b \in Slots |->
              IF b = c \/ sameObject(b)
              THEN [calls[b] EXCEPT !.listed = [@ EXCEPT ![id] = rec]]
              ELSE calls[b]]
        /\ subscriptions' =
              IF id \in r.shared
              THEN [subscriptions EXCEPT !.own = [@ EXCEPT ![id] = rec]]
              ELSE subscriptions
        /\ UNCHANGED <<disk, mode, phase, keys, secret, now, keyGen>>

\* delete subs[id], on the value subs held from call c.
CallerDeletes(c, id) ==
    /\ Holds(c)
    /\ id \in DOMAIN calls[c].listed
    /\ calls' = [calls EXCEPT ![c] =
          [@ EXCEPT !.listed = Restrict(@, DOMAIN @ \ {id}),
                    !.shared = @ \ {id}]]
    /\ UNCHANGED <<disk, mode, phase, keys, subscriptions, secret, now, keyGen>>

\* subs[id] = { subscription: d, createdAt }, on the value held from call c.
CallerAdds(c, id, d) ==
    LET rec == [subscription |-> d, createdAt |-> ToISOString(0)]
    IN  /\ Holds(c)
        /\ id \notin DOMAIN calls[c].listed
        /\ calls' = [calls EXCEPT ![c] =
              [@ EXCEPT !.listed = [i \in DOMAIN @ \cup {id} |->
                                       IF i = id THEN rec ELSE @[i]]]]
        /\ UNCHANGED <<disk, mode, phase, keys, subscriptions, secret, now, keyGen>>

(***************************************************************************)
(* createServer (lines 190-365).                                           *)
(***************************************************************************)

\* String.prototype.trim, on the contents a secret file holds here.
Trim(s) == IF s = "k1\n" THEN "k1" ELSE s

\* Lines 201-210, reached once await vapush.init() has returned: the secret
\* is the trimmed file, or else options.secret or 16 random bytes (fresh),
\* written to the file.
LoadSecret(fresh) ==
    /\ mode = "server" /\ phase = "ready"
    /\ IF secretFile.kind = "text"
       THEN /\ secret' = Trim(secretFile.value)
            /\ UNCHANGED secretFile
       ELSE /\ secret' = fresh
            /\ secretFile' = Text(fresh)
    /\ phase' = "secretLoaded"
    /\ UNCHANGED <<keyFile, subFile, mode, keys, subscriptions, calls, now, keyGen>>

\* Lines 351-364: server.listen; requests are handled from here on.
Listen ==
    /\ mode = "server" /\ phase = "secretLoaded"
    /\ phase' = "listening"
    /\ UNCHANGED <<disk, mode, keys, subscriptions, secret, calls, now, keyGen>>

\* A check that takes any secret the request carries.
checkSecret_anyProvided(provided) == provided # Undefined

\* checkSecret (lines 231-233).
checkSecret(provided) == provided = secret

\* A request as it arrives.  body is "json" (an object with the fields the
\* route reads), "invalid" (not JSON), "null" (the JSON text null) or
\* "scalar" (a JSON number, string or boolean: destructuring it throws
\* nothing and reads every field as undefined);
\* provided is the secret the request carries, Undefined when it carries none.
Request(route, provided, body) ==
    [IdleCall EXCEPT !.kind = "request", !.route = route,
                     !.provided = provided, !.body = body]

\* The handler answered without calling the store.
Respond(c, r, status) ==
    /\ calls' = [calls EXCEPT ![c] = [r EXCEPT !.pc = "done", !.status = status]]
    /\ UNCHANGED <<subscriptions, subFile>>

\* A server that answers before init has completed.
RequestPublicKey_beforeInit(c) ==
    /\ mode = "server" /\ Free(c)
    /\ getPublicKey(c, Request("public-key", Undefined, "none"))
    /\ UNCHANGED rest

\* GET /api/public-key (lines 248-252).
RequestPublicKey(c) ==
    /\ mode = "server" /\ phase = "listening" /\ Free(c)
    /\ getPublicKey(c, Request("public-key", Undefined, "none"))
    /\ UNCHANGED rest

\* POST /api/subscribe (lines 255-269): the body is parsed, then
\* destructured (a TypeError on null, answered 500), then the secret checked.
RequestSubscribe(c, provided, body, id, d, name) ==
    LET r == Request("subscribe", provided, body)
    IN  /\ mode = "server" /\ phase = "listening" /\ Free(c)
        /\ body # "json" => provided = Undefined
        /\ IF body = "invalid" THEN Respond(c, r, 400)
           ELSE IF body = "null" THEN Respond(c, r, 500)
           ELSE IF ~checkSecret(provided) THEN Respond(c, r, 401)
           ELSE subscribe(c, r, id, d, name)
        /\ UNCHANGED rest

\* POST /api/unsubscribe (lines 272-286).
RequestUnsubscribe(c, provided, body, id) ==
    LET r == Request("unsubscribe", provided, body)
    IN  /\ mode = "server" /\ phase = "listening" /\ Free(c)
        /\ body # "json" => provided = Undefined
        /\ IF body = "invalid" THEN Respond(c, r, 400)
           ELSE IF body = "null" THEN Respond(c, r, 500)
           ELSE IF ~checkSecret(provided) THEN Respond(c, r, 401)
           ELSE unsubscribe(c, r, id)
        /\ UNCHANGED rest

\* GET /api/subscriptions/SECRET (lines 289-296).  A path with no secret
\* segment does not match the route and falls through to the static files,
\* which hold no such file: 404.
RequestSubscriptions(c, provided) ==
    LET r == Request("subscriptions", provided, "none")
    IN  /\ mode = "server" /\ phase = "listening" /\ Free(c)
        /\ IF provided = Undefined THEN Respond(c, r, 404)
           ELSE IF ~checkSecret(provided) THEN Respond(c, r, 401)
           ELSE list(c, r)
        /\ UNCHANGED rest

\* POST /api/push/SECRET (lines 299-314): the secret is checked before the
\* body is read.
RequestPush(c, provided, body) ==
    LET r == Request("push", provided, body)
    IN  /\ mode = "server" /\ phase = "listening" /\ Free(c)
        /\ IF provided = Undefined THEN Respond(c, r, 404)
           ELSE IF ~checkSecret(provided) THEN Respond(c, r, 401)
           ELSE IF body = "invalid" THEN Respond(c, r, 400)
           ELSE IF body = "null" THEN Respond(c, r, 500)
           ELSE push(c, r)
        /\ UNCHANGED rest

(***************************************************************************)
(* Specifications.                                                         *)
(***************************************************************************)
Provided == Secrets \cup {Undefined}
Bodies == {"json", "invalid", "null", "scalar"}

\* The (descriptor, name) pairs subscribers register with.
Registrations == {<<"d1", Undefined>>, <<"d2", "n">>}
\* The inputs of the overlapping specification.
OverlapIds == {"a"}
OverlapRegistrations == {<<"d1", Undefined>>, <<"d2", Undefined>>}
OverlapSubjects == {"mailto:x"}
OverlapSecrets == {"k1"}
OverlapOutcomes == {Resolved, "410", "500"}

\* Whether a call may start now: at any time, or, one at a time, only when
\* every earlier call has returned and its result has been taken.
Gate(oneAtATime) == oneAtATime => AllIdle

\* A method is called, with arguments from the given sets.
Call(ids, regs, oneAtATime) ==
    \E c \in Slots :
        \/ Gate(oneAtATime) /\ CallGetPublicKey(c)
        \/ Gate(oneAtATime) /\ \E id \in ids, reg \in regs : CallSubscribe(c, id, reg[1], reg[2])
        \/ Gate(oneAtATime) /\ \E id \in ids : CallUnsubscribe(c, id)
        \/ Gate(oneAtATime) /\ CallGetSubscriptions(c)
        \/ Gate(oneAtATime) /\ CallPush(c)
        \/ Gate(oneAtATime) /\ \E id \in ids : CallPushTo(c, id)

\* A request arrives.
Arrive(ids, regs, oneAtATime) ==
    \E c \in Slots :
        \/ Gate(oneAtATime) /\ RequestPublicKey(c)
        \/ Gate(oneAtATime) /\ \E p \in Provided, b \in Bodies, id \in ids, reg \in regs :
                      RequestSubscribe(c, p, b, id, reg[1], reg[2])
        \/ Gate(oneAtATime) /\ \E p \in Provided, b \in Bodies, id \in ids :
                      RequestUnsubscribe(c, p, b, id)
        \/ Gate(oneAtATime) /\ \E p \in Provided : RequestSubscriptions(c, p)
        \/ Gate(oneAtATime) /\ \E p \in Provided, b \in Bodies : RequestPush(c, p, b)

\* An awaited promise settles, or a result is taken.
Settle(answers) ==
    \E c \in Slots :
        \/ \E id \in Ids, statusCode \in answers : PushDelivery(c, id, statusCode)
        \/ \E statusCode \in answers \cup {Undefined} : PushToDelivery(c, statusCode)
        \/ WriteComplete(c)
        \/ Reap(c)

\* The process starts up, or ends and is started again.
Lifecycle(subjects, secrets) ==
    \/ \E subject \in subjects : InitLoadKeys(subject)
    \/ InitLoadSubscriptions
    \/ \E fresh \in secrets : LoadSecret(fresh)
    \/ Listen
    \/ Restart

\* Calls and requests run one at a time: none starts before the previous
\* one has returned and its result has been taken.
SeqNext ==
    \/ Call(Ids, Registrations, TRUE)
    \/ Arrive(Ids, Registrations, TRUE)
    \/ Settle(Outcomes)
    \/ Lifecycle(Subjects, Secrets)
    \/ Tick

SeqSpec == Init /\ [][SeqNext]_vars

\* Calls and requests overlap freely.
Next ==
    \/ Call(OverlapIds, OverlapRegistrations, FALSE)
    \/ Arrive(OverlapIds, OverlapRegistrations, FALSE)
    \/ Settle(OverlapOutcomes)
    \/ Lifecycle(OverlapSubjects, OverlapSecrets)

Spec == Init /\ [][Next]_vars

\* Overlapping calls, with the scheduling Node.js and the operating system
\* give: a write handed to fs.writeFile completes.  Nothing is assumed of
\* sendNotification: an attempt may stay pending for ever.
LiveSpec == Init /\ [][Next]_vars /\ \A c \in Slots : WF_vars(WriteComplete(c))

\* Overlapping calls made by a program that also changes the values
\* getSubscriptions returned to it.
CallerIds == {"a", "b"}
CallerNames == {"renamed"}

Caller ==
    \E c \in Slots :
        \/ \E id \in CallerIds, name \in CallerNames : CallerSetsName(c, id, name)
        \/ \E id \in CallerIds : CallerDeletes(c, id)
        \/ \E id \in CallerIds : CallerAdds(c, id, "d1")

CopyNext ==
    \/ Call(OverlapIds, OverlapRegistrations, FALSE)
    \/ Arrive(OverlapIds, OverlapRegistrations, FALSE)
    \/ Settle(OverlapOutcomes)
    \/ Lifecycle(OverlapSubjects, OverlapSecrets)
    \/ Caller

CopySpec == Init /\ [][CopyNext]_vars

\* Calls and requests one at a time, on a disk whose writes can fail.
FaultNext ==
    \/ Call(OverlapIds, Registrations, TRUE)
    \/ Arrive(OverlapIds, Registrations, TRUE)
    \/ Settle(OverlapOutcomes)
    \/ Lifecycle(OverlapSubjects, Secrets)
    \/ \E c \in Slots : WriteFail(c)

FaultSpec == Init /\ [][FaultNext]_vars

(***************************************************************************)
(* Properties.                                                             *)
(***************************************************************************)

\* The call in slot c returns in this step.
Returns(c) == calls[c].pc # "done" /\ calls'[c].pc = "done"
\* The call in slot c is made in this step.
Starts(c) == calls[c].pc = "idle" /\ calls'[c].pc # "idle"

\* The identifiers of a push whose attempt was answered 404 or 410, and
\* those whose attempt failed in any other way.
GoneIds(r) == {id \in DOMAIN r.outcome : r.outcome[id] \in {"404", "410"}}
OtherFailedIds(r) ==
    {id \in DOMAIN r.outcome : r.outcome[id] \notin {Resolved, "404", "410"}}

\* C1: a push made with N subscriptions in the store, K of whose attempts
\* are answered 404 or 410 and F of which fail otherwise, returns
\* {success: N-K-F, failed: K+F}; on return exactly the K identifiers are
\* gone from the store and the others are still there.  On an empty store it
\* returns {success: 0, failed: 0} at once: no attempt, no write, no error.
C1_PushAllCounts ==
    [][\A c \in Slots :
         (Returns(c) /\ calls'[c].kind = "push") =>
            LET r == calls'[c]
                N == Cardinality(DOMAIN r.sent)
                K == Cardinality(GoneIds(r))
                F == Cardinality(OtherFailedIds(r))
            IN  /\ r.ret = "counts"
                /\ DOMAIN r.outcome = DOMAIN r.sent
                /\ r.success = N - K - F
                /\ r.failed = K + F
                /\ DOMAIN getSubscriptions(subscriptions') = DOMAIN r.sent \ GoneIds(r)
                /\ N = 0 => /\ Starts(c)
                            /\ r.success = 0 /\ r.failed = 0
                            /\ UNCHANGED <<subscriptions, subFile>>]_vars

\* A push over two subscriptions has returned: one attempt was answered 404
\* or 410, the other failed otherwise.
C1_Witness ==
    \E c \in Slots :
        /\ calls[c].kind = "push" /\ calls[c].pc = "done"
        /\ Cardinality(DOMAIN calls[c].sent) = 2
        /\ Cardinality(GoneIds(calls[c])) = 1
        /\ Cardinality(OtherFailedIds(calls[c])) = 1

\* The routes that ask for the secret.
SecretRoutes == {"subscribe", "unsubscribe", "subscriptions", "push"}

\* The request that arrives in slot c is turned away with this status, and
\* has done nothing: the store and its file are as before, no delivery
\* attempt and no write has been issued.
TurnedAway(c, status) ==
    /\ calls'[c].pc = "done"
    /\ calls'[c].status = status
    /\ calls'[c].sent = EmptyMap
    /\ calls'[c].write = NoWrite
    /\ UNCHANGED <<subscriptions, subFile>>

\* C2 as stated: every request to subscribe, unsubscribe, list or push whose
\* secret (a missing one included) is not the server's is answered 401, with
\* the store and its file unchanged and no delivery attempt.
C2_MismatchIs401 ==
    [][\A c \in Slots :
         (Starts(c) /\ calls'[c].route \in SecretRoutes
                    /\ calls'[c].provided # secret)
            => TurnedAway(c, 401)]_vars

\* The status a request without the server's secret is answered with.
MismatchStatus(r) ==
    IF r.route \in {"subscribe", "unsubscribe"}
    THEN (IF r.body = "invalid" THEN 400 ELSE IF r.body = "null" THEN 500 ELSE 401)
    ELSE (IF r.provided = Undefined THEN 404 ELSE 401)

\* C2 amended: such a request never reaches the store (store and file
\* unchanged, no delivery attempt, no write) and is answered 401, except
\* that a subscribe or unsubscribe body that is not JSON is answered 400 and
\* one that is the JSON null 500, both before the secret is looked at, and a
\* list or push URL without a secret segment is answered 404; a request that
\* has been answered does nothing later; /api/public-key is answered 200
\* without a secret.
C2_MismatchTurnedAway ==
    [][\A c \in Slots :
         /\ (Starts(c) /\ calls'[c].route \in SecretRoutes
                       /\ calls'[c].provided # secret)
               => TurnedAway(c, MismatchStatus(calls'[c]))
         /\ (Starts(c) /\ calls'[c].route = "public-key")
               => calls'[c].status = 200 /\ calls'[c].provided = Undefined
         /\ calls[c].pc = "done" => calls'[c] \in {calls[c], IdleCall}]_vars

\* A push request carrying another secret than the server's was answered 401.
C2_Witness ==
    \E c \in Slots :
        /\ calls[c].route = "push" /\ calls[c].pc = "done"
        /\ calls[c].provided \in Secrets /\ secret \in Secrets
        /\ calls[c].provided # secret
        /\ calls[c].status = 401

\* C3 as stated: when subscribe(id, d, name) returns, getSubscriptions maps
\* id to a record whose descriptor is d; the call adds no other identifier
\* and leaves the records of the other identifiers as they were.
C3_SubscribeThenList ==
    [][\A c \in Slots :
         /\ (Returns(c) /\ calls'[c].kind = "subscribe") =>
               LET l == getSubscriptions(subscriptions')
                   id == calls'[c].id
               IN  id \in DOMAIN l /\ Get(l[id], "subscription") = calls'[c].d
         /\ (Starts(c) /\ calls'[c].kind = "subscribe") =>
               LET l0 == getSubscriptions(subscriptions)
                   l1 == getSubscriptions(subscriptions')
                   id == calls'[c].id
               IN  /\ DOMAIN l1 = DOMAIN l0 \cup {id}
                   /\ \A i \in DOMAIN l0 \ {id} : l1[i] = l0[i]]_vars

\* C4 as stated: unsubscribe(id) of an identifier getSubscriptions does not
\* hold returns false at once, with the map unchanged and nothing written;
\* of one it holds, it removes that identifier and no other, and returns true.
C4_Unsubscribe ==
    [][\A c \in Slots :
         /\ (Starts(c) /\ calls'[c].kind = "unsubscribe") =>
               LET l0 == getSubscriptions(subscriptions)
                   l1 == getSubscriptions(subscriptions')
                   id == calls'[c].id
               IN  IF id \notin DOMAIN l0
                   THEN /\ calls'[c].pc = "done" /\ calls'[c].ret = "false"
                        /\ calls'[c].write = NoWrite
                        /\ UNCHANGED <<subscriptions, subFile>>
                   ELSE l1 = Restrict(l0, DOMAIN l0 \ {id})
         /\ (Returns(c) /\ calls[c].kind = "unsubscribe") => calls'[c].ret = "true"]_vars

\* The records of two maps read the same: same identifiers, and the same
\* descriptor, creation time and name under each.
SameRecords(l1, l2) ==
    /\ DOMAIN l1 = DOMAIN l2
    /\ \A id \in DOMAIN l1 : \A f \in {"subscription", "createdAt", "name"} :
          Get(l1[id], f) = Get(l2[id], f)

Initialized == phase \in {"ready", "secretLoaded", "listening"}

\* C5: with calls run one at a time, whenever none is in progress a new
\* store constructed on the data directory would load, in init, a map whose
\* records read the same as those the running store holds.
C5_RoundTrip ==
    (Initialized /\ Quiescent) =>
        SameRecords(getSubscriptions(Loaded(subFile)), getSubscriptions(subscriptions))

\* A store that loaded its records from the file (a record made by subscribe
\* has its own name property, a parsed one need not) holds one without a
\* name and one with a name.
C5_Witness ==
    /\ Initialized /\ AllIdle
    /\ \E i, j \in DOMAIN subscriptions.own :
          /\ "name" \notin DOMAIN subscriptions.own[i]
          /\ Get(subscriptions.own[j], "name") = "n"
          /\ subscriptions.own[i].createdAt # subscriptions.own[j].createdAt

\* C6 as stated: whenever no call is in progress, overlapping requests or
\* not, the persisted file holds the map the store holds.
C6_FileHoldsMap ==
    (Initialized /\ Quiescent) =>
        IF subFile.kind = "json"
        THEN SameRecords(subFile.value, getSubscriptions(subscriptions))
        ELSE getSubscriptions(subscriptions) = EmptyMap

\* C8 as stated: pushTo(id) of an identifier getSubscriptions does not hold
\* returns false at once: no delivery attempt, map and file unchanged.
C8_PushToUnknown ==
    [][\A c \in Slots :
         (Starts(c) /\ calls'[c].kind = "pushTo"
                    /\ calls'[c].id \notin DOMAIN getSubscriptions(subscriptions))
            => /\ calls'[c].pc = "done" /\ calls'[c].ret = "false"
               /\ calls'[c].sent = EmptyMap /\ calls'[c].write = NoWrite
               /\ UNCHANGED <<subscriptions, subFile>>]_vars

\* C7: a push issues, in its calling step, one sendNotification for every
\* identifier the store then holds, to that identifier's descriptor, before
\* any outcome is awaited; from then on every attempt is either pending or
\* settled once, and whatever the others did (failed, resolved or never
\* settled), each pending attempt can settle with any answer.
C7_FanOut ==
    /\ [][\A c \in Slots :
            (Starts(c) /\ calls'[c].kind = "push") =>
               LET l == getSubscriptions(subscriptions)
                   r == calls'[c]
               IN  /\ DOMAIN r.sent = DOMAIN l
                   /\ \A id \in DOMAIN l : r.sent[id] = Get(l[id], "subscription")
                   /\ r.outcome = EmptyMap
                   /\ r.pc = "sending" => r.pending = DOMAIN l]_vars
    /\ [](\A c \in Slots :
            (calls[c].kind = "push" /\ calls[c].pc = "sending") =>
               /\ calls[c].pending \cup DOMAIN calls[c].outcome = DOMAIN calls[c].sent
               /\ calls[c].pending \cap DOMAIN calls[c].outcome = {}
               /\ calls[c].pending # {}
               /\ \A id \in calls[c].pending, statusCode \in Outcomes :
                     ENABLED PushDelivery(c, id, statusCode))

\* A push over two subscriptions: one attempt has failed, the other is
\* still pending.
C7_Witness ==
    \E c \in Slots :
        /\ calls[c].kind = "push" /\ calls[c].pc = "sending"
        /\ Cardinality(DOMAIN calls[c].sent) = 2
        /\ Cardinality(calls[c].pending) = 1
        /\ \E id \in DOMAIN calls[c].outcome : calls[c].outcome[id] = "500"

\* C9: once vapid.json holds a key record, no step changes the file or
\* generates a pair, every init loads exactly that record, and getPublicKey
\* returns its public key.
C9_KeysIdempotent ==
    [][keyFile.kind = "json" =>
         /\ keyFile' = keyFile
         /\ keyGen' = keyGen
         /\ keys' # Null => keys' = keyFile.value
         /\ \A c \in Slots :
               (Starts(c) /\ calls'[c].kind = "getPublicKey" /\ calls'[c].ret = "value")
                  => calls'[c].pub = keyFile.value.publicKey]_vars

\* A later process (its records were parsed from the file) has loaded the
\* key record an earlier one wrote.
C9_Witness ==
    /\ keys # Null /\ keyFile.kind = "json" /\ keys = keyFile.value
    /\ \E i \in DOMAIN subscriptions.own : "name" \notin DOMAIN subscriptions.own[i]

\* C10: getPublicKey called before init has loaded or created the keys
\* throws "Not initialized"; called once init has completed it returns the
\* persisted public key; a request for /api/public-key is only handled once
\* the server listens, after init, and is answered 200 with that key.
C10_GetPublicKey ==
    [][\A c \in Slots :
         (Starts(c) /\ calls'[c].kind = "getPublicKey") =>
            /\ phase = "constructed" => calls'[c].ret = "Not initialized"
            /\ Initialized =>
                  /\ calls'[c].ret = "value"
                  /\ keyFile.kind = "json"
                  /\ calls'[c].pub = keyFile.value.publicKey
            /\ calls'[c].route = "public-key" =>
                  /\ phase = "listening"
                  /\ calls'[c].status = 200 /\ calls'[c].ret = "value"]_vars

\* getPublicKey was called on a store just constructed, and threw.
C10_Witness ==
    \E c \in Slots :
        /\ calls[c].kind = "getPublicKey" /\ calls[c].pc = "done"
        /\ calls[c].ret = "Not initialized"
        /\ phase = "constructed"

\* The call in slot c takes a step.
Steps(c) == calls'[c] # calls[c]

\* C11: pushTo(id) of an identifier the store holds issues one
\* sendNotification, to the descriptor stored under id, and nothing else
\* before it settles.  When it resolves the call returns true, with store
\* and file untouched; when it is answered 404 or 410 the identifier (and no
\* other) is deleted, the map is written to the file, and the call returns
\* false once the file holds the map; on any other failure the call returns
\* false with store and file untouched and no write.  The call never throws.
C11_PushToKnown ==
    [][\A c \in Slots :
         LET l0 == getSubscriptions(subscriptions)
             l1 == getSubscriptions(subscriptions')
             r0 == calls[c]
             r1 == calls'[c]
         IN  /\ (Starts(c) /\ r1.kind = "pushTo" /\ r1.id \in DOMAIN l0) =>
                   /\ r1.pc = "sending"
                   /\ r1.sent = [i \in {r1.id} |-> Get(l0[r1.id], "subscription")]
                   /\ r1.pending = {r1.id} /\ r1.outcome = EmptyMap
                   /\ r1.write = NoWrite
                   /\ UNCHANGED <<subscriptions, subFile>>
             /\ (Steps(c) /\ r0.kind = "pushTo" /\ r0.pc = "sending"
                          /\ r0.id \in DOMAIN l0) =>
                   /\ DOMAIN r1.outcome = {r0.id} /\ r1.pending = {}
                   /\ r1.sent = r0.sent
                   /\ UNCHANGED subFile
                   /\ CASE r1.outcome[r0.id] = Resolved ->
                             /\ r1.pc = "done" /\ r1.ret = "true"
                             /\ r1.write = NoWrite /\ UNCHANGED subscriptions
                        [] r1.outcome[r0.id] \in {"404", "410"} ->
                             /\ l1 = Restrict(l0, DOMAIN l0 \ {r0.id})
                             /\ r1.pc = "saving"
                             /\ r1.write = Stringify(subscriptions')
                        [] OTHER ->
                             /\ r1.pc = "done" /\ r1.ret = "false"
                             /\ r1.write = NoWrite /\ UNCHANGED subscriptions
             /\ (Steps(c) /\ r0.kind = "pushTo" /\ r0.pc = "saving") =>
                   /\ subFile' = r0.write
                   /\ r1.pc = "done" /\ r1.ret = "false"
                   /\ UNCHANGED subscriptions
             /\ (Returns(c) /\ r1.kind = "pushTo" /\ r1.sent # EmptyMap) =>
                   /\ r1.ret \in {"true", "false"}
                   /\ r1.ret = "true" <=> r1.outcome[r1.id] = Resolved]_vars

\* A pushTo of a stored identifier was answered 410: it has returned false,
\* the identifier is gone and the file holds the map that is left, in which
\* another subscription remains.
C11_Witness ==
    \E c \in Slots :
        /\ calls[c].kind = "pushTo" /\ calls[c].pc = "done"
        /\ calls[c].ret = "false"
        /\ calls[c].id \in DOMAIN calls[c].sent
        /\ calls[c].sent[calls[c].id] \in Descriptors
        /\ calls[c].outcome[calls[c].id] = "410"
        /\ calls[c].id \notin DOMAIN getSubscriptions(subscriptions)
        /\ getSubscriptions(subscriptions) # EmptyMap
        /\ subFile = Stringify(subscriptions)

\* C12: while an attempt of a push is still pending, the push deletes
\* nothing and issues no write; the step in which its last attempt settles
\* deletes every identifier answered 404 or 410 (and no other) and issues one
\* write of the map that is left if there is such an identifier, and returns
\* without a write if there is none; the file changes only when that one
\* write completes, and then the push returns.
C12_PushOrdering ==
    [][\A c \in Slots :
         LET l0 == getSubscriptions(subscriptions)
             l1 == getSubscriptions(subscriptions')
             r0 == calls[c]
             r1 == calls'[c]
         IN  /\ (Starts(c) /\ r1.kind = "push") =>
                   /\ r1.write = NoWrite /\ r1.toRemove = {}
                   /\ UNCHANGED <<subscriptions, subFile>>
             /\ (Steps(c) /\ r0.kind = "push" /\ r0.pc = "sending") =>
                   /\ UNCHANGED subFile
                   /\ r1.toRemove = GoneIds(r1)
                   /\ IF r1.pending # {}
                      THEN /\ r1.pc = "sending" /\ r1.write = NoWrite
                           /\ UNCHANGED subscriptions
                      ELSE /\ l1 = Restrict(l0, DOMAIN l0 \ r1.toRemove)
                           /\ IF r1.toRemove # {}
                              THEN /\ r1.pc = "saving"
                                   /\ r1.write = Stringify(subscriptions')
                              ELSE /\ r1.pc = "done" /\ r1.write = NoWrite
                                   /\ UNCHANGED subscriptions
             /\ (Steps(c) /\ r0.kind = "push" /\ r0.pc = "saving") =>
                   /\ subFile' = r0.write
                   /\ r1.pc = "done"
                   /\ UNCHANGED subscriptions
             /\ (r0.kind = "push" /\ r0.pc = "sending") => UNCHANGED subFile]_vars

\* A push over two subscriptions has returned: both attempts were answered
\* 404 or 410, and the file holds the map that its one write left.
C12_Witness ==
    \E c \in Slots :
        /\ calls[c].kind = "push" /\ calls[c].pc = "done"
        /\ Cardinality(calls[c].toRemove) = 2
        /\ calls[c].failed = 2
        /\ subFile = Stringify(subscriptions)

\* C13 as stated: a key pair is generated, and vapid.json written, only when
\* the file is missing; when the file is there but does not read or parse,
\* init does not get past loading the keys and the file is left as it is.
C13_KeyRecordKept ==
    [][/\ (keyGen' # keyGen \/ keyFile' # keyFile) => keyFile = Missing
       /\ keyFile = Corrupt => /\ keyFile' = keyFile
                               /\ keys' = Null
                               /\ phase' = "constructed"]_vars

\* The methods that call saveSubscriptions.
Mutators == {"subscribe", "unsubscribe", "push", "pushTo"}

\* C14: when subscriptions.json is missing or does not parse, init still
\* completes and the store it leaves is the empty map; no step of the
\* start-up (init, loading the secret, listening, a restart) changes the
\* file: it changes only when the write of a later subscribe, unsubscribe,
\* push or pushTo completes.
C14_LoadDefaultsToEmpty ==
    /\ [][/\ (phase = "keysLoaded" /\ phase' # phase /\ subFile.kind # "json") =>
                /\ phase' = "ready"
                /\ subscriptions' = EmptyObject
                /\ getSubscriptions(subscriptions') = EmptyMap
          /\ phase' # phase => subFile' = subFile
          /\ subFile' # subFile =>
                \E c \in Slots :
                    /\ calls[c].kind \in Mutators /\ calls[c].pc = "saving"
                    /\ Returns(c)
                    /\ subFile' = calls[c].write]_vars
    /\ [](phase = "keysLoaded" => ENABLED InitLoadSubscriptions)

\* init has completed on a data directory whose subscriptions.json does not
\* parse: the store is empty and the file still as it was.
C14_Witness ==
    /\ phase = "ready" /\ keys # Null
    /\ subFile = Corrupt
    /\ getSubscriptions(subscriptions) = EmptyMap

\* C15 as stated: a push or pushTo deletes an identifier only when the
\* record the store holds under it at that moment still has the descriptor
\* the attempt answered 404 or 410 was sent to; a record that a subscribe made
\* under the identifier while the attempt was in flight is not deleted.
C15_PrunesOnlyWhatWasSent ==
    [][\A c \in Slots :
         (Steps(c) /\ calls[c].kind \in {"push", "pushTo"} /\ calls[c].pc = "sending") =>
            LET l0 == getSubscriptions(subscriptions)
                l1 == getSubscriptions(subscriptions')
            IN  \A id \in DOMAIN l0 \ DOMAIN l1 :
                    /\ id \in DOMAIN calls[c].sent
                    /\ calls'[c].outcome[id] \in {"404", "410"}
                    /\ Get(l0[id], "subscription") = calls[c].sent[id]]_vars

\* A call can be made in slot c: every method of a program using the class,
\* every route of the server.
CanStart(c) ==
    /\ (mode = "lib" /\ phase = "ready") =>
          /\ ENABLED CallSubscribe(c, "a", "d1", Undefined)
          /\ ENABLED CallUnsubscribe(c, "a")
          /\ ENABLED CallGetSubscriptions(c)
          /\ ENABLED CallGetPublicKey(c)
          /\ ENABLED CallPush(c)
          /\ ENABLED CallPushTo(c, "a")
    /\ (mode = "server" /\ phase = "listening") =>
          /\ ENABLED RequestSubscribe(c, secret, "json", "a", "d1", Undefined)
          /\ ENABLED RequestUnsubscribe(c, secret, "json", "a")
          /\ ENABLED RequestSubscriptions(c, secret)
          /\ ENABLED RequestPublicKey(c)
          /\ ENABLED RequestPush(c, secret, "json")

\* C16: a push or pushTo waits only while one of its attempts is pending:
\* once the last has settled it is writing or has returned, and a call that
\* is writing returns.  Whatever attempts of other calls stay pending, a call
\* that is writing still returns (so subscribe and unsubscribe complete;
\* list and public-key return in the step that calls them), an attempt of
\* another push can still settle, and new calls and requests can be made.
C16_Progress ==
    /\ [](\A c \in Slots :
            /\ calls[c].pc = "sending" => calls[c].pending # {}
            /\ calls[c].pc # "sending" => calls[c].pending = {}
            /\ calls[c].kind \in {"list", "getPublicKey"} => calls[c].pc = "done"
            /\ calls[c].pc = "saving" => ENABLED WriteComplete(c)
            /\ calls[c].kind = "push" =>
                  \A id \in calls[c].pending : ENABLED PushDelivery(c, id, Resolved)
            /\ calls[c].kind = "pushTo" /\ calls[c].pc = "sending" =>
                  \E statusCode \in Outcomes : ENABLED PushToDelivery(c, statusCode)
            /\ Free(c) => CanStart(c))
    /\ \A c \in Slots : (calls[c].pc = "saving") ~> (calls[c].pc = "done")

\* While the attempt of a push request stays pending, a subscribe request
\* that arrived after it has been answered.
C16_Witness ==
    \E b, c \in Slots :
        /\ calls[b].route = "push" /\ calls[b].pc = "sending"
        /\ calls[c].route = "subscribe" /\ calls[c].kind = "subscribe"
        /\ calls[c].pc = "done" /\ calls[c].status = 200
        /\ calls[c].d \notin {calls[b].sent[id] : id \in DOMAIN calls[b].sent}

\* The call in slot c acts in this step (that its result shares one record
\* less with the store is another call's doing).
Acts(c) == [calls'[c] EXCEPT !.shared = {}] # [calls[c] EXCEPT !.shared = {}]

\* The program holds the result of the getSubscriptions call in slot c
\* before and after this step.
Held(c) == /\ calls[c].kind = "list" /\ calls[c].pc = "done"
           /\ calls'[c].kind = "list" /\ calls'[c].pc = "done"

\* C17 as stated: whatever a program changes in a value getSubscriptions
\* returned (an identifier added or deleted, a field of a record assigned),
\* the store holds what it held; and no step of a later call (subscribe,
\* unsubscribe, push, pushTo and their deliveries and writes) changes a
\* value returned earlier.
C17_SnapshotCopy ==
    [][\A c \in Slots :
         /\ (Held(c) /\ Acts(c)) => UNCHANGED <<subscriptions, subFile>>
         /\ (Held(c) /\ \E b \in Slots \ {c} : Acts(b) /\ calls'[b].kind # "list")
               => calls'[c].listed = calls[c].listed]_vars

\* The routes that read a JSON body.
BodyRoutes == {"subscribe", "unsubscribe", "push"}

\* The request arriving in slot c in this step is for one of these routes
\* (with a secret in the URL where the route takes it there) and has one of
\* these bodies.
ArrivesWith(c, routes, bodies) ==
    /\ Starts(c)
    /\ calls'[c].route \in routes /\ calls'[c].body \in bodies
    /\ calls'[c].route = "push" => calls'[c].provided # Undefined

\* The write of the request in slot c fails in this step.
WriteFails(c) == calls[c].pc = "saving" /\ calls'[c].ret = "EIO" /\ calls[c].route # "none"

\* The server keeps serving: it stops listening only by a restart, made
\* when nothing is in progress, and takes a request whenever a slot is free.
KeepsServing ==
    /\ [][phase = "listening" =>
            \/ phase' = "listening"
            \/ phase' = "constructed" /\ AllIdle]_vars
    /\ [](\A c \in Slots : (phase = "listening" /\ Free(c)) => CanStart(c))

\* No request is left unanswered, and an answer is final.
Answered ==
    [][\A c \in Slots :
         /\ (calls'[c].route # "none" /\ calls'[c].pc = "done")
               => calls'[c].status \in {200, 400, 401, 404, 500}
         /\ (calls[c].route # "none" /\ calls[c].pc = "done")
               => calls'[c] \in {calls[c], IdleCall}]_vars

\* C18 as stated: a subscribe, unsubscribe or push request whose body is not
\* JSON is answered 400, with the store unchanged and no delivery attempt;
\* one whose body is JSON but no object, and one whose file write fails, is
\* answered 500; every request is answered and the server keeps serving.
C18_ErrorsAnswered ==
    /\ [][\A c \in Slots :
            /\ ArrivesWith(c, BodyRoutes, {"invalid"}) => TurnedAway(c, 400)
            /\ ArrivesWith(c, BodyRoutes, {"null", "scalar"}) => TurnedAway(c, 500)
            /\ WriteFails(c) => calls'[c].pc = "done" /\ calls'[c].status = 500]_vars
    /\ Answered
    /\ KeepsServing

\* C18 amended: a subscribe or unsubscribe request whose body is not JSON is
\* answered 400 and one whose body is the JSON null 500, whatever secret was
\* meant; one whose body is a JSON number, string or boolean carries no
\* secret and is answered 401.  A push request is answered 401 when the
\* secret in its URL is not the server's, whatever its body; with the
\* server's secret it is answered 400 when the body is not JSON, 500 when it
\* is null, and is carried out as a push when it is a number, string or
\* boolean.  All of these but the last leave the store and the file as they
\* were and make no delivery attempt.  A request whose file write fails is
\* answered 500.  Every request is answered and the server keeps serving.
C18_ErrorsByRoute ==
    /\ [][\A c \in Slots :
            LET r == calls'[c]
                body == {"subscribe", "unsubscribe"}
            IN  /\ ArrivesWith(c, body, {"invalid"}) => TurnedAway(c, 400)
                /\ ArrivesWith(c, body, {"null"}) => TurnedAway(c, 500)
                /\ ArrivesWith(c, body, {"scalar"}) => TurnedAway(c, 401)
                /\ (ArrivesWith(c, {"push"}, Bodies) /\ r.provided # secret)
                      => TurnedAway(c, 401)
                /\ (ArrivesWith(c, {"push"}, {"invalid"}) /\ r.provided = secret)
                      => TurnedAway(c, 400)
                /\ (ArrivesWith(c, {"push"}, {"null"}) /\ r.provided = secret)
                      => TurnedAway(c, 500)
                /\ (ArrivesWith(c, {"push"}, {"scalar", "json"}) /\ r.provided = secret)
                      => /\ r.kind = "push"
                         /\ r.sent = [id \in ObjectKeys(subscriptions) |->
                                         SubscriptionOf(subscriptions, id)]
                         /\ r.pc = "done" => r.status = 200
                /\ WriteFails(c) => /\ r.pc = "done" /\ r.status = 500
                                    /\ UNCHANGED subscriptions]_vars
    /\ Answered
    /\ KeepsServing

\* The write of an earlier request failed (the store holds a subscription
\* the file does not), and a later list request has been answered 200 with
\* what the store holds.
C18_Witness ==
    \E c \in Slots :
        /\ phase = "listening"
        /\ calls[c].route = "subscriptions" /\ calls[c].pc = "done"
        /\ calls[c].status = 200
        /\ calls[c].listed # EmptyMap
        /\ subFile.kind # "json"

=============================================================================
